---------------------------- MODULE Spec2Model ----------------------------
(* A model of the symmetri command line (src/src/cli.rs, src/src/main.rs): *)
(* the `report` and `collect` commands of `run`, the exit path of `main`,  *)
(* and the pure function `latest_metrics`.                                 *)
(*                                                                         *)
(* The crates `timeframe`, `db`, `collector`, `aggregate`, `cli_helpers`   *)
(* and `graph` that cli.rs imports are not part of the source tree at      *)
(* hand; the operators that stand for them follow the written design of    *)
(* those components and say so in their comments.                          *)
(*                                                                         *)
(* Time is counted in hours: it is the finest unit build_timeframe takes.  *)
EXTENDS Integers, Sequences, FiniteSets, TLC

\* ------------------------------------------------------------------ bounds
\* Largest low part of a --hours/--days/--months value that is tried.
MaxArg == 1
\* Last value of the wall clock (hours since the first observation).
MaxClock == 2
\* Capacity of the store file, in rows of both tables together: an insert
\* into a full store fails with a StorageError.
MaxRows == 1
\* The tick counter of a collect process saturates here.
MaxTicks == 2
\* collect_once signals "no usable sensors" with some code in 1..MaxExitCode.
MaxExitCode == 2
\* latest_metrics: longest input, latest timestamp.
MaxSamples == 3
MaxTs == 1

VARIABLES
    store,          \* the sample store: [battery, metric], two append-only tables
    clock,          \* the wall clock, in hours
    pc,             \* position of the running process; "idle" when none runs
    cmd,            \* the parsed command line (Cli::parse_from)
    timeframe,      \* Option<Timeframe>: the value bound at cli.rs:121
    calls,          \* the calls a report run has made so far, in order
    stdout,         \* what the process printed on stdout, in order
    stderr,         \* what main printed on stderr
    result,         \* Option<Result<()>>: what run returned to main
    exit,           \* Option<[code, by]>: how the process ended
    totals,         \* [battery, metric]: Option<count> of cli.rs:124-125
    raw_samples,    \* Option<seq>: cli.rs:132
    metric_samples, \* Option<seq>: cli.rs:133
    rendered,       \* the paths graph::render_plot was called with
    ticks,          \* ticks started by the running collect process
    reader,         \* index of the next Sensor Reader of the tick in progress
    stored,         \* readings stored by the tick in progress
    collected,      \* Option<Result<i32>>: what collect_once / collect_loop returned
    lm              \* the state of one latest_metrics call

collectVars == <<ticks, reader, stored, collected>>

vars == <<store, clock, pc, cmd, timeframe, calls, stdout, stderr, result, exit,
          totals, raw_samples, metric_samples, rendered, collectVars, lm>>

\* ------------------------------------------------------------ Option, Result
None == <<>>
Some(v) == <<v>>
IsSome(o) == o /= <<>>
Unwrap(o) == o[1]

Ok(v) == [ok |-> TRUE, val |-> v]
Err(e) == [ok |-> FALSE, err |-> e]

\* ------------------------------------------------------------- u64 and i64
\* A 64-bit word is kept as its top bit and its low 63 bits. As a u64 the
\* word [hi, lo] is hi * 2^63 + lo.
U64Inputs == {[hi |-> 0, lo |-> n] : n \in 0..MaxArg} \cup {[hi |-> 1, lo |-> 0]}

U64NonZero(v) == v.hi = 1 \/ v.lo > 0

\* `x as i64` (cli.rs:121): the same 64 bits read in two's complement, so the
\* top bit becomes the sign: the i64 [neg, low] is low - 2^63 when neg, else low.
AsI64(v) == [neg |-> v.hi = 1, low |-> v.lo]

I64Positive(x) == ~x.neg /\ x.low > 0

\* --------------------------------------------------------------- timeframe
\* A label is a string, kept as its pieces so that replace('_', " ") is visible.
Label(n, unit) == <<"last", "_", ToString(n), "_", unit>>

AllTimeLabel == <<"all", " ", "time">>

\* timeframe::build_timeframe, from its design: all-time wins, then months
\* (30 days each), then days, then hours; the winning magnitude must be > 0,
\* else the request is malformed (TimeframeError). window is in hours.
build_timeframe(hours, days, months, all_time) ==
    IF all_time THEN Ok([label |-> AllTimeLabel, window |-> None])
    ELSE IF I64Positive(months)
        THEN Ok([label |-> Label(months.low, "months"), window |-> Some(months.low * 30 * 24)])
    ELSE IF I64Positive(days)
        THEN Ok([label |-> Label(days.low, "days"), window |-> Some(days.low * 24)])
    ELSE IF I64Positive(hours)
        THEN Ok([label |-> Label(hours.low, "hours"), window |-> Some(hours.low)])
    ELSE Err("TimeframeError")

\* Timeframe::since_timestamp(now): None for all-time, else now - window.
since_timestamp(tf, now) ==
    IF IsSome(tf.window) THEN Some(now - Unwrap(tf.window)) ELSE None

\* `timeframe.label.replace('_', " ")` (cli.rs:139, 179).
DisplayLabel(label) == [i \in DOMAIN label |-> IF label[i] = "_" THEN " " ELSE label[i]]

\* ------------------------------------------------------------------- store
TotalRows(s) == Len(s.battery) + Len(s.metric)

SelectSince(rows, since) ==
    IF IsSome(since) THEN SelectSeq(rows, LAMBDA r : r.ts >= Unwrap(since)) ELSE rows

\* db::count_samples / db::count_metric_samples: rows at or after `since`.
count_samples(s, since) == Len(SelectSince(s.battery, since))

count_metric_samples(s, since) == Len(SelectSince(s.metric, since))

\* db::fetch_samples / db::fetch_metric_samples: rows at or after `since`, by
\* ts ascending (the tables are appended in clock order). No limit is passed.
fetch_samples(s, since) == SelectSince(s.battery, since)

fetch_metric_samples(s, since) == SelectSince(s.metric, since)

\* aggregate::aggregate_samples_by_timestamp: one sample per distinct ts, in
\* ascending ts order (only ts is kept of a battery sample here).
RECURSIVE aggregate_samples_by_timestamp(_)
aggregate_samples_by_timestamp(raw) ==
    IF raw = <<>> THEN <<>>
    ELSE LET rest == aggregate_samples_by_timestamp(Tail(raw))
         IN  IF rest /= <<>> /\ Head(rest).ts = Head(raw).ts THEN rest
             ELSE <<Head(raw)>> \o rest

\* cli_helpers::default_graph_path(label, None, now): a name made from the label.
default_graph_path(label) == <<"symmetri_">> \o label \o <<".png">>

GraphPathInputs == {None, Some(<<"custom.png">>)}


\* ------------------------------------------------------- the command line
\* `#[arg(long = "hours", default_value_t = 6)]`
HoursDefault == 6

HoursInputs == U64Inputs \cup {[hi |-> 0, lo |-> HoursDefault]}

\* `interval: Option<u64>`: absent, or a number of seconds.
IntervalInputs == {None, Some([hi |-> 0, lo |-> 0]), Some([hi |-> 0, lo |-> 1])}

NoCommand == [name |-> "none"]

\* The sensor readers of a tick, in the order they are invoked, and the
\* sample each stores when it succeeds.
Readers == <<"battery", "cpu_usage">>

Reading(r, now) ==
    IF r = "battery" THEN [ts |-> now]
    ELSE [ts |-> now, kind |-> "CpuUsage", source |-> "cpu"]

\* ------------------------------------------------------------------- Init
EmptyStore == [battery |-> <<>>, metric |-> <<>>]

NoTotals == [battery |-> None, metric |-> None]

LmIdle == [pc |-> "idle", input |-> <<>>, idx |-> 1, latest |-> <<>>, out |-> <<>>]

\* The process is gone: what it printed and returned is forgotten, the store
\* file stays.
Reap ==
    /\ pc = "done"
    /\ pc' = "idle"
    /\ cmd' = NoCommand
    /\ timeframe' = None
    /\ calls' = <<>>
    /\ stdout' = <<>>
    /\ stderr' = <<>>
    /\ result' = None
    /\ exit' = None
    /\ totals' = NoTotals
    /\ raw_samples' = None
    /\ metric_samples' = None
    /\ rendered' = <<>>
    /\ ticks' = 0
    /\ reader' = 1
    /\ stored' = 0
    /\ collected' = None
    /\ UNCHANGED <<store, clock, lm>>

Init ==
    /\ store = EmptyStore
    /\ clock = 0
    /\ pc = "idle"
    /\ cmd = NoCommand
    /\ timeframe = None
    /\ calls = <<>>
    /\ stdout = <<>>
    /\ stderr = <<>>
    /\ result = None
    /\ exit = None
    /\ totals = NoTotals
    /\ raw_samples = None
    /\ metric_samples = None
    /\ rendered = <<>>
    /\ ticks = 0
    /\ reader = 1
    /\ stored = 0
    /\ collected = None
    /\ lm = LmIdle

\* ------------------------------------------------------- the environment
\* Time passes while no process runs and while the collect loop sleeps.
TimePasses ==
    /\ pc \in {"idle", "c_sleep"}
    /\ clock < MaxClock
    /\ clock' = clock + 1
    /\ UNCHANGED <<store, pc, cmd, timeframe, calls, stdout, stderr, result, exit,
                   totals, raw_samples, metric_samples, rendered, collectVars, lm>>

\* ------------------------------------------------------------ run: report
\* Cli::parse_from and the Commands::Report arm (cli.rs:93-94, 110-120).
StartReport ==
    /\ pc = "idle"
    /\ \E hours \in HoursInputs, days \in U64Inputs, months \in U64Inputs,
          all_time \in BOOLEAN, graph \in BOOLEAN, graph_path \in GraphPathInputs :
          cmd' = [name |-> "report", hours |-> hours, days |-> days, months |-> months,
                  all_time |-> all_time, graph |-> graph, graph_path |-> graph_path]
    /\ pc' = "r_timeframe"
    /\ UNCHANGED <<store, clock, timeframe, calls, stdout, stderr, result, exit, totals,
                   raw_samples, metric_samples, rendered, collectVars, lm>>

\* run returns Err(e) through a `?`.
ReturnErr(e) ==
    /\ result' = Some(Err(e))
    /\ pc' = "returned"

\* std::process::exit(code) inside run.
ProcessExit(code) ==
    /\ exit' = Some([code |-> code, by |-> "process_exit"])
    /\ pc' = "done"

\* cli.rs:121-122: build_timeframe(...)? then resolve_db_path.
ReportBuildTimeframe_unwrap_or_default ==
    /\ pc = "r_timeframe"
    /\ LET r == build_timeframe(AsI64(cmd.hours), AsI64(cmd.days), AsI64(cmd.months),
                                cmd.all_time)
       IN  /\ timeframe' = Some(IF r.ok THEN r.val
                                ELSE [label |-> Label(0, "hours"), window |-> Some(0)])
           /\ calls' = calls \o <<"build_timeframe", "resolve_db_path">>
           /\ pc' = "r_count_battery"
           /\ UNCHANGED result
    /\ UNCHANGED <<store, clock, cmd, stdout, stderr, exit, totals, raw_samples,
                   metric_samples, rendered, collectVars, lm>>

ReportBuildTimeframe ==
    /\ pc = "r_timeframe"
    /\ LET r == build_timeframe(AsI64(cmd.hours), AsI64(cmd.days), AsI64(cmd.months),
                                cmd.all_time)
       IN  IF r.ok
           THEN /\ timeframe' = Some(r.val)
                /\ calls' = calls \o <<"build_timeframe", "resolve_db_path">>
                /\ pc' = "r_count_battery"
                /\ UNCHANGED result
           ELSE /\ calls' = Append(calls, "build_timeframe")
                /\ ReturnErr(r.err)
                /\ UNCHANGED timeframe
    /\ UNCHANGED <<store, clock, cmd, stdout, stderr, exit, totals, raw_samples,
                   metric_samples, rendered, collectVars, lm>>

\* cli.rs:124: db::count_samples(&resolved, None)?
ReportCountBattery ==
    /\ pc = "r_count_battery"
    /\ calls' = Append(calls, "count_samples")
    /\ \E ok \in BOOLEAN :
          IF ok
          THEN /\ totals' = [totals EXCEPT !.battery = Some(count_samples(store, None))]
               /\ pc' = "r_count_metric"
               /\ UNCHANGED result
          ELSE /\ ReturnErr("StorageError")
               /\ UNCHANGED totals
    /\ UNCHANGED <<store, clock, cmd, timeframe, stdout, stderr, exit, raw_samples,
                   metric_samples, rendered, collectVars, lm>>

\* cli.rs:126: the test that decides "no records at all".
StoreIsEmpty_or(battery_total, metric_total) == battery_total = 0 \/ metric_total = 0

StoreIsEmpty_skipped(battery_total, metric_total) == FALSE

StoreIsEmpty(battery_total, metric_total) == battery_total = 0 /\ metric_total = 0

\* cli.rs:125-129: db::count_metric_samples(&resolved, None)?, then the
\* empty-store exit.
ReportCountMetric ==
    /\ pc = "r_count_metric"
    /\ calls' = Append(calls, "count_metric_samples")
    /\ \E ok \in BOOLEAN :
          IF ok
          THEN /\ totals' = [totals EXCEPT !.metric = Some(count_metric_samples(store, None))]
               /\ IF StoreIsEmpty(Unwrap(totals.battery), count_metric_samples(store, None))
                  THEN /\ stdout' = Append(stdout, [msg |-> "No records available"])
                       /\ ProcessExit(1)
                  ELSE /\ pc' = "r_fetch_battery"
                       /\ UNCHANGED <<stdout, exit>>
               /\ UNCHANGED result
          ELSE /\ ReturnErr("StorageError")
               /\ UNCHANGED <<totals, stdout, exit>>
    /\ UNCHANGED <<store, clock, cmd, timeframe, stderr, raw_samples, metric_samples,
                   rendered, collectVars, lm>>

\* cli.rs:131-132: since_timestamp(None) reads the clock; db::fetch_samples(..)?
ReportFetchBattery_drain ==
    /\ pc = "r_fetch_battery"
    /\ calls' = calls \o <<"since_timestamp", "fetch_samples">>
    /\ raw_samples' = Some(fetch_samples(store, since_timestamp(Unwrap(timeframe), clock)))
    /\ store' = [store EXCEPT !.battery = <<>>]
    /\ pc' = "r_fetch_metric"
    /\ UNCHANGED <<clock, cmd, timeframe, stdout, stderr, result, exit, totals,
                   metric_samples, rendered, collectVars, lm>>

ReportFetchBattery ==
    /\ pc = "r_fetch_battery"
    /\ calls' = calls \o <<"since_timestamp", "fetch_samples">>
    /\ \E ok \in BOOLEAN :
          IF ok
          THEN /\ raw_samples' =
                      Some(fetch_samples(store, since_timestamp(Unwrap(timeframe), clock)))
               /\ pc' = "r_fetch_metric"
               /\ UNCHANGED result
          ELSE /\ ReturnErr("StorageError")
               /\ UNCHANGED raw_samples
    /\ UNCHANGED <<store, clock, cmd, timeframe, stdout, stderr, exit, totals,
                   metric_samples, rendered, collectVars, lm>>

\* cli.rs:136: the test that decides "no records in the window".
WindowIsEmpty(samples, metrics) == samples = <<>> /\ metrics = <<>>

\* cli.rs:133-142: db::fetch_metric_samples(.., since_ts, None)?, the
\* aggregation, then the empty-window exit.
ReportFetchMetric ==
    /\ pc = "r_fetch_metric"
    /\ \E ok \in BOOLEAN :
          IF ok
          THEN LET fetched == fetch_metric_samples(store,
                                  since_timestamp(Unwrap(timeframe), clock))
                   samples == aggregate_samples_by_timestamp(Unwrap(raw_samples))
               IN  /\ metric_samples' = Some(fetched)
                   /\ calls' = calls \o <<"fetch_metric_samples",
                                          "aggregate_samples_by_timestamp">>
                   /\ IF WindowIsEmpty(samples, fetched)
                      THEN /\ stdout' = Append(stdout,
                                  [msg |-> "No records for",
                                   label |-> DisplayLabel(Unwrap(timeframe).label)])
                           /\ ProcessExit(1)
                      ELSE /\ pc' = "r_graph"
                           /\ UNCHANGED <<stdout, exit>>
                   /\ UNCHANGED result
          ELSE /\ calls' = Append(calls, "fetch_metric_samples")
               /\ ReturnErr("StorageError")
               /\ UNCHANGED <<metric_samples, stdout, exit>>
    /\ UNCHANGED <<store, clock, cmd, timeframe, stderr, totals, raw_samples,
                   rendered, collectVars, lm>>

\* cli.rs:144-152: the match on (graph_path, graph_flag).
OutputPath_flag_first(c, tf) ==
    IF c.graph THEN Some(default_graph_path(tf.label))
    ELSE IF IsSome(c.graph_path) THEN c.graph_path
    ELSE None

OutputPath(c, tf) ==
    IF IsSome(c.graph_path) THEN c.graph_path
    ELSE IF c.graph THEN Some(default_graph_path(tf.label))
    ELSE None

Samples == aggregate_samples_by_timestamp(Unwrap(raw_samples))

\* cli.rs:144-160: pick the output path; skip, or graph::render_plot(..)?
ReportGraph ==
    /\ pc = "r_graph"
    /\ LET path == OutputPath(cmd, Unwrap(timeframe))
           named == IF ~IsSome(cmd.graph_path) /\ cmd.graph
                    THEN <<"default_graph_path">> ELSE <<>>
       IN  IF ~IsSome(path)
           THEN /\ pc' = "r_summary"
                /\ calls' = calls \o named
                /\ UNCHANGED <<stdout, rendered, result>>
           ELSE IF Samples = <<>>
           THEN /\ stdout' = Append(stdout, [msg |-> "Skipping graph output"])
                /\ pc' = "r_summary"
                /\ calls' = calls \o named
                /\ UNCHANGED <<rendered, result>>
           ELSE /\ calls' = calls \o named \o <<"render_plot">>
                /\ rendered' = Append(rendered, Unwrap(path))
                /\ \E ok \in BOOLEAN :
                      IF ok THEN pc' = "r_summary" /\ UNCHANGED result
                      ELSE ReturnErr("RenderError")
                /\ UNCHANGED stdout
    /\ UNCHANGED <<store, clock, cmd, timeframe, stderr, exit, totals,
                   raw_samples, metric_samples, collectVars, lm>>

\* summarize (cli.rs:173-212): what it prints, by heading.
summarize(samples, tf, metrics) ==
    (IF samples /= <<>>
     THEN <<[msg |-> "Timeframe summary", label |-> DisplayLabel(tf.label)],
            [msg |-> "Timeframe windows", label |-> DisplayLabel(tf.label)]>>
     ELSE <<[msg |-> "No battery samples available", label |-> DisplayLabel(tf.label)]>>)
    \o <<[msg |-> "System metrics", label |-> DisplayLabel(tf.label)]>>

\* cli.rs:162-170: summarize(..), then Ok(()).
ReportSummarize ==
    /\ pc = "r_summary"
    /\ calls' = Append(calls, "summarize")
    /\ stdout' = stdout \o summarize(Samples, Unwrap(timeframe), Unwrap(metric_samples))
    /\ result' = Some(Ok("unit"))
    /\ pc' = "returned"
    /\ UNCHANGED <<store, clock, cmd, timeframe, stderr, exit, totals, raw_samples,
                   metric_samples, rendered, collectVars, lm>>

\* main (main.rs:3-8): an Err is printed and the process exits 1; Ok exits 0.
Main_exit_zero ==
    /\ pc = "returned"
    /\ stderr' = IF Unwrap(result).ok THEN stderr
                 ELSE Append(stderr, <<"Error: ", Unwrap(result).err>>)
    /\ exit' = Some([code |-> 0, by |-> "main"])
    /\ pc' = "done"
    /\ UNCHANGED <<store, clock, cmd, timeframe, calls, stdout, result, totals,
                   raw_samples, metric_samples, rendered, collectVars, lm>>

Main ==
    /\ pc = "returned"
    /\ IF Unwrap(result).ok
       THEN /\ exit' = Some([code |-> 0, by |-> "main"])
            /\ UNCHANGED stderr
       ELSE /\ stderr' = Append(stderr, <<"Error: ", Unwrap(result).err>>)
            /\ exit' = Some([code |-> 1, by |-> "main"])
    /\ pc' = "done"
    /\ UNCHANGED <<store, clock, cmd, timeframe, calls, stdout, result, totals,
                   raw_samples, metric_samples, rendered, collectVars, lm>>


\* ----------------------------------------------------------- run: collect
\* Cli::parse_from and the Commands::Collect arm (cli.rs:93-100).
StartCollect ==
    /\ pc = "idle"
    /\ \E interval \in IntervalInputs : cmd' = [name |-> "collect", interval |-> interval]
    /\ pc' = "c_open"
    /\ UNCHANGED <<store, clock, timeframe, calls, stdout, stderr, result, exit, totals,
                   raw_samples, metric_samples, rendered, collectVars, lm>>

\* cli.rs:101: `if let Some(interval) = interval` picks collect_loop.
LoopMode_never(c) == FALSE

LoopMode(c) == IsSome(c.interval)

\* collector::collect_once / collect_loop open the store first; a store that
\* cannot be opened is a StorageError returned to run. For collect_once the
\* open is part of its one tick; for collect_loop it is the startup, before
\* any tick.
CollectOpen ==
    /\ pc = "c_open"
    /\ \E ok \in BOOLEAN :
          IF ok
          THEN /\ pc' = "c_tick"
               /\ ticks' = 1
               /\ UNCHANGED collected
          ELSE /\ collected' = Some(Err("StorageError"))
               /\ pc' = "c_returned"
               /\ ticks' = IF LoopMode(cmd) THEN 0 ELSE 1
    /\ UNCHANGED <<store, clock, cmd, timeframe, calls, stdout, stderr, result, exit,
                   totals, raw_samples, metric_samples, rendered, reader, stored, lm>>

\* One Sensor Reader of the tick fails: the failure is logged and the tick
\* goes on with the next reader.
ReaderFails ==
    /\ pc = "c_tick"
    /\ reader <= Len(Readers)
    /\ reader' = reader + 1
    /\ UNCHANGED <<store, clock, pc, cmd, timeframe, calls, stdout, stderr, result, exit,
                   totals, raw_samples, metric_samples, rendered, ticks, stored,
                   collected, lm>>

\* db insert: append one record (insert_battery / insert_metric).
Insert(s, r, sample) ==
    IF r = "battery" THEN [s EXCEPT !.battery = Append(@, sample)]
    ELSE [s EXCEPT !.metric = Append(@, sample)]

\* One Sensor Reader succeeds and its reading is stored.
ReaderStores ==
    /\ pc = "c_tick"
    /\ reader <= Len(Readers)
    /\ TotalRows(store) < MaxRows
    /\ store' = Insert(store, Readers[reader], Reading(Readers[reader], clock))
    /\ stored' = stored + 1
    /\ reader' = reader + 1
    /\ UNCHANGED <<clock, pc, cmd, timeframe, calls, stdout, stderr, result, exit,
                   totals, raw_samples, metric_samples, rendered, ticks, collected, lm>>

\* One Sensor Reader succeeds and the insert of its reading fails: a
\* StorageError is fatal to the tick. collect_once returns it; collect_loop
\* logs the failed tick and sleeps.
InsertFails ==
    /\ pc = "c_tick"
    /\ reader <= Len(Readers)
    /\ IF LoopMode(cmd)
       THEN pc' = "c_sleep" /\ UNCHANGED collected
       ELSE pc' = "c_returned" /\ collected' = Some(Err("StorageError"))
    /\ UNCHANGED <<store, clock, cmd, timeframe, calls, stdout, stderr, result, exit,
                   totals, raw_samples, metric_samples, rendered, ticks, reader, stored, lm>>

\* The end of a tick. collect_once returns 0 when a reading was stored and a
\* non-zero code when every reader failed; collect_loop sleeps.
TickEnd ==
    /\ pc = "c_tick"
    /\ reader = Len(Readers) + 1
    /\ IF LoopMode(cmd)
       THEN pc' = "c_sleep" /\ UNCHANGED collected
       ELSE /\ pc' = "c_returned"
            /\ \E code \in 0..MaxExitCode :
                  /\ code = 0 <=> stored > 0
                  /\ collected' = Some(Ok(code))
    /\ UNCHANGED <<store, clock, cmd, timeframe, calls, stdout, stderr, result, exit,
                   totals, raw_samples, metric_samples, rendered, ticks, reader, stored, lm>>

\* collect_loop: the sleep is over, the next tick starts.
Wake ==
    /\ pc = "c_sleep"
    /\ pc' = "c_tick"
    /\ ticks' = IF ticks < MaxTicks THEN ticks + 1 ELSE ticks
    /\ reader' = 1
    /\ stored' = 0
    /\ UNCHANGED <<store, clock, cmd, timeframe, calls, stdout, stderr, result, exit,
                   totals, raw_samples, metric_samples, rendered, collected, lm>>

\* The collect loop has no exit of its own: it is ended from outside.
Kill ==
    /\ pc \in {"c_tick", "c_sleep"}
    /\ LoopMode(cmd)
    /\ exit' = Some([code |-> 143, by |-> "signal"])
    /\ pc' = "done"
    /\ UNCHANGED <<store, clock, cmd, timeframe, calls, stdout, stderr, result,
                   totals, raw_samples, metric_samples, rendered, collectVars, lm>>

\* cli.rs:101-108: `collect_loop(..)?`, or `collect_once(..)?` and the exit
\* with its code when that is not 0.
CollectReturn_ignore_code ==
    /\ pc = "c_returned"
    /\ result' = Some(IF Unwrap(collected).ok THEN Ok("unit") ELSE Err(Unwrap(collected).err))
    /\ pc' = "returned"
    /\ UNCHANGED <<store, clock, cmd, timeframe, calls, stdout, stderr, exit,
                   totals, raw_samples, metric_samples, rendered, collectVars, lm>>

CollectReturn ==
    /\ pc = "c_returned"
    /\ LET r == Unwrap(collected)
       IN  IF ~r.ok
           THEN ReturnErr(r.err) /\ UNCHANGED exit
           ELSE IF r.val /= 0
           THEN ProcessExit(r.val) /\ UNCHANGED result
           ELSE /\ result' = Some(Ok("unit"))
                /\ pc' = "returned"
                /\ UNCHANGED exit
    /\ UNCHANGED <<store, clock, cmd, timeframe, calls, stdout, stderr,
                   totals, raw_samples, metric_samples, rendered, collectVars, lm>>

\* ------------------------------------------------------------------- Next
ReportNext ==
    \/ StartReport
    \/ ReportBuildTimeframe
    \/ ReportCountBattery
    \/ ReportCountMetric
    \/ ReportFetchBattery
    \/ ReportFetchMetric
    \/ ReportGraph
    \/ ReportSummarize

CollectNext ==
    \/ StartCollect
    \/ CollectOpen
    \/ ReaderFails
    \/ ReaderStores
    \/ InsertFails
    \/ TickEnd
    \/ Wake
    \/ Kill
    \/ CollectReturn

Next == ReportNext \/ CollectNext \/ Main \/ Reap \/ TimePasses

Spec == Init /\ [][Next]_vars


\* ------------------------------------------------------------ latest_metrics
\* Strings that are compared are kept as their characters; Alphabet lists the
\* characters used, in byte order, which is the order str::cmp compares by.
Alphabet == <<"0", "1", "2", "3", "4", "5", "6", "7", "8", "9", "_",
              "a", "b", "c", "d", "e", "f", "g", "h", "i", "j", "k", "l", "m",
              "n", "o", "p", "q", "r", "s", "t", "u", "v", "w", "x", "y", "z">>

ByteOf == [ch \in {Alphabet[i] : i \in DOMAIN Alphabet} |->
               CHOOSE i \in DOMAIN Alphabet : Alphabet[i] = ch]

Byte(ch) == ByteOf[ch]

\* str::cmp / String::cmp: lexicographic by bytes, a proper prefix is less.
RECURSIVE StrCmp(_, _)
StrCmp(a, b) ==
    IF a = <<>> /\ b = <<>> THEN "Equal"
    ELSE IF a = <<>> THEN "Less"
    ELSE IF b = <<>> THEN "Greater"
    ELSE IF Byte(Head(a)) < Byte(Head(b)) THEN "Less"
    ELSE IF Byte(Head(a)) > Byte(Head(b)) THEN "Greater"
    ELSE StrCmp(Tail(a), Tail(b))

\* MetricKind::as_str: the name of a kind (two of the nine kinds are used; the
\* enum declares CpuUsage before CpuFrequency, their names sort the other way).
Kinds == {"CpuUsage", "CpuFrequency"}

as_str(kind) ==
    IF kind = "CpuUsage" THEN <<"c", "p", "u", "_", "u", "s", "a", "g", "e">>
    ELSE <<"c", "p", "u", "_", "f", "r", "e", "q", "u", "e", "n", "c", "y">>

Sources == {<<"c", "p", "u">>, <<"c", "p", "u", "0">>}

Key(sample) == <<sample.kind, sample.source>>

\* cli.rs:372-377: the comparison handed to sort_by.
sort_cmp(a, b) ==
    LET by_kind == StrCmp(as_str(a.kind), as_str(b.kind))
    IN  IF by_kind /= "Equal" THEN by_kind ELSE StrCmp(a.source, b.source)

\* slice::sort_by: a stable sort; x goes after every element not greater than it.
RECURSIVE InsertStable(_, _)
InsertStable(sorted, x) ==
    IF sorted = <<>> THEN <<x>>
    ELSE IF sort_cmp(x, Head(sorted)) = "Less" THEN <<x>> \o sorted
    ELSE <<Head(sorted)>> \o InsertStable(Tail(sorted), x)

RECURSIVE sort_by(_)
sort_by(s) ==
    IF s = <<>> THEN <<>>
    ELSE InsertStable(sort_by(SubSeq(s, 1, Len(s) - 1)), s[Len(s)])

\* cli.rs:363-369: one turn of the loop over the samples. `latest` maps a
\* (kind, source) key to the sample kept for it.
fold_step_keep_last(latest, sample) ==
    IF Key(sample) \in DOMAIN latest /\ latest[Key(sample)].ts > sample.ts
    THEN latest
    ELSE [k \in DOMAIN latest \cup {Key(sample)} |->
              IF k = Key(sample) THEN sample ELSE latest[k]]

fold_step(latest, sample) ==
    IF Key(sample) \in DOMAIN latest /\ latest[Key(sample)].ts >= sample.ts
    THEN latest
    ELSE [k \in DOMAIN latest \cup {Key(sample)} |->
              IF k = Key(sample) THEN sample ELSE latest[k]]

\* The inputs tried: every sequence of at most MaxSamples samples over the
\* kinds, sources and timestamps above, given as the sequence of their
\* <<kind, source, ts>>. `value` is the sample's position, so that two
\* samples of one key and one ts can be told apart in the output.
LmShapes(n) == [1..n -> Kinds \X Sources \X (0..MaxTs)]

LmInput(f) ==
    [i \in DOMAIN f |-> [ts |-> f[i][3], kind |-> f[i][1], source |-> f[i][2], value |-> i]]

\* The orders in which a HashMap may yield the values of the keys in S.
RECURSIVE Orders(_)
Orders(S) ==
    IF S = {} THEN {<<>>}
    ELSE UNION {{<<k>> \o rest : rest \in Orders(S \ {k})} : k \in S}

\* cli.rs:361-370: the loop.
LmFold ==
    /\ lm.pc = "fold"
    /\ lm.idx <= Len(lm.input)
    /\ lm' = [lm EXCEPT !.latest = fold_step(lm.latest, lm.input[lm.idx]),
                        !.idx = lm.idx + 1]
    /\ UNCHANGED <<store, clock, pc, cmd, timeframe, calls, stdout, stderr, result, exit,
                   totals, raw_samples, metric_samples, rendered, collectVars>>

\* cli.rs:371: latest.into_values().cloned().collect(): a HashMap yields its
\* values in an order of its own, so every order is possible.
LmCollect ==
    /\ lm.pc = "fold"
    /\ lm.idx > Len(lm.input)
    /\ \E order \in Orders(DOMAIN lm.latest) :
          lm' = [lm EXCEPT !.out = [i \in DOMAIN order |-> lm.latest[order[i]]],
                           !.pc = "sort"]
    /\ UNCHANGED <<store, clock, pc, cmd, timeframe, calls, stdout, stderr, result, exit,
                   totals, raw_samples, metric_samples, rendered, collectVars>>

\* cli.rs:372-378: out.sort_by(..); out
LmSort ==
    /\ lm.pc = "sort"
    /\ lm' = [lm EXCEPT !.out = sort_by(lm.out), !.pc = "done"]
    /\ UNCHANGED <<store, clock, pc, cmd, timeframe, calls, stdout, stderr, result, exit,
                   totals, raw_samples, metric_samples, rendered, collectVars>>

\* One call of latest_metrics on each input.
LatestInit ==
    /\ store = EmptyStore
    /\ clock = 0
    /\ pc = "idle"
    /\ cmd = NoCommand
    /\ timeframe = None
    /\ calls = <<>>
    /\ stdout = <<>>
    /\ stderr = <<>>
    /\ result = None
    /\ exit = None
    /\ totals = NoTotals
    /\ raw_samples = None
    /\ metric_samples = None
    /\ rendered = <<>>
    /\ ticks = 0
    /\ reader = 1
    /\ stored = 0
    /\ collected = None
    /\ \E n \in 0..MaxSamples :
          \E f \in LmShapes(n) :
             lm = [pc |-> "fold", input |-> LmInput(f), idx |-> 1, latest |-> <<>>,
                   out |-> <<>>]

LatestNext == LmFold \/ LmCollect \/ LmSort

LatestSpec == LatestInit /\ [][LatestNext]_vars


\* ================================================================ properties
Has(seq, x) == \E i \in DOMAIN seq : seq[i] = x

Printed(text) == \E i \in DOMAIN stdout : stdout[i].msg = text

IsReport == cmd.name = "report"

\* The store operations a report may issue.
StoreQueries == {"count_samples", "count_metric_samples", "fetch_samples",
                 "fetch_metric_samples"}

\* What comes after the two counts in a report.
AfterCounts == {"since_timestamp", "fetch_samples", "fetch_metric_samples",
                "aggregate_samples_by_timestamp", "default_graph_path", "render_plot",
                "summarize"}

Tables == {"Timeframe summary", "Timeframe windows", "No battery samples available",
           "System metrics"}

NoTableNoGraph ==
    /\ rendered = <<>>
    /\ ~Has(calls, "render_plot")
    /\ ~Has(calls, "summarize")
    /\ \A t \in Tables : ~Printed(t)

\* The rows of the store that lie in the window of the report in progress.
WindowBattery == fetch_samples(store, since_timestamp(Unwrap(timeframe), clock))

WindowMetric == fetch_metric_samples(store, since_timestamp(Unwrap(timeframe), clock))

\* C1: a report whose two counts (taken with no lower bound) were both zero
\* has printed "No records available" and nothing else, has exited with a
\* non-zero status through process::exit, and has issued no fetch, no
\* aggregation, no rendering and no summary.
C1_EmptyStoreReportsNoRecords ==
    (IsReport /\ IsSome(totals.metric) /\ TotalRows(store) = 0)
        => /\ Unwrap(totals.battery) = 0 /\ Unwrap(totals.metric) = 0
           /\ pc = "done"
           /\ stdout = <<[msg |-> "No records available"]>>
           /\ IsSome(exit) /\ Unwrap(exit).code /= 0 /\ Unwrap(exit).by = "process_exit"
           /\ \A c \in AfterCounts : ~Has(calls, c)
           /\ raw_samples = None /\ metric_samples = None
           /\ NoTableNoGraph

C1_Witness ==
    /\ IsReport /\ pc = "done" /\ TotalRows(store) = 0
    /\ totals = [battery |-> Some(0), metric |-> Some(0)]
    /\ Printed("No records available")

\* C2: a report on a store that holds a row, whose window holds no battery
\* row and no metric row, has printed "No records for <label>" and nothing
\* else (in particular not the empty-store message), has exited non-zero and
\* has rendered no table and no graph; and "No records available" is printed
\* only in a run whose store holds no row at all.
C2_EmptyWindowIsDistinct ==
    /\ (IsReport /\ IsSome(metric_samples) /\ TotalRows(store) > 0
            /\ WindowBattery = <<>> /\ WindowMetric = <<>>)
        => /\ pc = "done"
           /\ stdout = <<[msg |-> "No records for",
                          label |-> DisplayLabel(Unwrap(timeframe).label)]>>
           /\ ~Printed("No records available")
           /\ IsSome(exit) /\ Unwrap(exit).code /= 0
           /\ NoTableNoGraph
    /\ (IsReport /\ Printed("No records available")) => TotalRows(store) = 0

C2_Witness ==
    /\ IsReport /\ pc = "done" /\ TotalRows(store) > 0
    /\ raw_samples = Some(<<>>) /\ metric_samples = Some(<<>>)
    /\ Printed("No records for")

\* C3: the window of a report follows the precedence all-time > months > days
\* > hours on the values given on the command line: --all gives no lower
\* bound; else a non-zero --months gives months x 30 days; else a non-zero
\* --days gives days x 24 h; else the window is hours x 1 h.
\* (A value with its top bit set is at least 2^63, and no window of the model
\* is that long.)
WindowIs(v, unit_hours) ==
    v.hi = 0 /\ Unwrap(timeframe).window = Some(v.lo * unit_hours)

C3_PrecedenceOnU64 ==
    (IsReport /\ IsSome(timeframe))
        => IF cmd.all_time THEN Unwrap(timeframe).window = None
           ELSE IF U64NonZero(cmd.months) THEN WindowIs(cmd.months, 30 * 24)
           ELSE IF U64NonZero(cmd.days) THEN WindowIs(cmd.days, 24)
           ELSE WindowIs(cmd.hours, 1)

\* C4: the timeframe a report holds is all-time or has a window > 0, so that
\* its lower bound is before now; no store query is issued without such a
\* timeframe; and a request of --hours 0 --days 0 --months 0 without --all
\* issues no store query at all.
WellFormed(tf) ==
    \/ tf.window = None /\ since_timestamp(tf, clock) = None
    \/ /\ IsSome(tf.window)
       /\ Unwrap(tf.window) > 0
       /\ Unwrap(since_timestamp(tf, clock)) < clock

ZeroRequest(c) ==
    /\ ~c.all_time
    /\ ~U64NonZero(c.hours) /\ ~U64NonZero(c.days) /\ ~U64NonZero(c.months)

C4_TimeframeWellFormed ==
    IsReport
        => /\ IsSome(timeframe) => WellFormed(Unwrap(timeframe))
           /\ (\E q \in StoreQueries : Has(calls, q)) => IsSome(timeframe)
           /\ ZeroRequest(cmd) => \A q \in StoreQueries : ~Has(calls, q)

C4_Witness ==
    /\ IsReport /\ pc = "done" /\ ZeroRequest(cmd)
    /\ calls = <<"build_timeframe">>
    /\ IsSome(exit) /\ Unwrap(exit).code = 1


\* The collect command alone, with the fairness its control flow gives: the
\* process is sequential, so the step it is at (the store open, a reader, the
\* end of a tick, the end of a sleep, a return) is eventually taken. Nothing
\* obliges the environment to start a command, to let time pass or to end
\* the loop.
ReaderStep == ReaderFails \/ ReaderStores \/ InsertFails

ProgramStep == CollectOpen \/ ReaderStep \/ TickEnd \/ Wake \/ CollectReturn \/ Main

CollectOnlyNext == CollectNext \/ Main \/ Reap \/ TimePasses

FairSpec ==
    /\ Init
    /\ [][CollectOnlyNext]_vars
    /\ WF_vars(ProgramStep)

OnceCmd == cmd.name = "collect" /\ cmd.interval = None

LoopCmd == cmd.name = "collect" /\ cmd.interval /= None

\* C5, as claimed: collect without --interval runs one tick and exits 0 if and
\* only if a reading was stored in that tick.
C5_ExitZeroIffStored ==
    (OnceCmd /\ pc = "done")
        => /\ ticks = 1
           /\ Unwrap(exit).code = 0 <=> stored > 0

\* C5, amended: collect without --interval runs one tick and exits 0 if and
\* only if a reading was stored in that tick and no store operation failed;
\* when every reader failed it exits with collect_once's non-zero code, and a
\* StorageError exits 1 through main whatever was stored before it.
C5_ExitZeroIffStoredAndNoStoreError ==
    (OnceCmd /\ pc = "done")
        => /\ ticks = 1
           /\ IsSome(collected) /\ IsSome(exit)
           /\ LET r == Unwrap(collected)
                  e == Unwrap(exit)
              IN  /\ e.code = 0 <=> (r.ok /\ stored > 0)
                  /\ (r.ok /\ stored = 0)
                        => e.by = "process_exit" /\ e.code = r.val /\ r.val /= 0
                  /\ ~r.ok => e = [code |-> 1, by |-> "main"]

\* Some reader failed, a reading was stored, the exit status is 0.
C5_Witness ==
    /\ OnceCmd /\ pc = "done"
    /\ reader = Len(Readers) + 1 /\ stored = 1
    /\ Unwrap(exit).code = 0

\* C6: collect with --interval ends only by a signal or by the store failing
\* to open at startup; a tick starts only at startup or after a sleep; and
\* whenever a tick is over and the loop sleeps (also after a tick in which
\* every reader failed), another tick starts later, unless the process is
\* ended from outside.
C6_LoopNeverStops ==
    /\ [](LoopCmd /\ IsSome(exit)
            => \/ Unwrap(exit).by = "signal"
               \/ /\ exit = Some([code |-> 1, by |-> "main"])
                  /\ ticks = 0
                  /\ result = Some(Err("StorageError")))
    /\ [][(LoopCmd /\ pc /= "c_tick" /\ pc' = "c_tick") => pc \in {"c_open", "c_sleep"}]_vars
    /\ (LoopCmd /\ pc = "c_sleep")
            ~> ((LoopCmd /\ pc = "c_tick" /\ reader = 1) \/ (LoopCmd /\ pc = "done"))

\* The loop sleeps after a second tick in which every reader failed.
C6_Witness ==
    /\ LoopCmd /\ pc = "c_sleep"
    /\ ticks = 2 /\ stored = 0 /\ reader = Len(Readers) + 1

\* C7: no step of a report run changes the store, and a report calls nothing
\* of the store but its count and fetch operations.
ReportCalls == StoreQueries \cup {"build_timeframe", "resolve_db_path", "since_timestamp",
                                  "aggregate_samples_by_timestamp", "default_graph_path",
                                  "render_plot", "summarize"}

C7_ReportIsReadOnly ==
    [][(IsReport /\ pc /= "idle")
          => /\ store' = store
             /\ \A i \in DOMAIN calls' : calls'[i] \in ReportCalls]_vars

\* A report has run to its summary on a store that holds rows.
C7_Witness ==
    /\ IsReport /\ pc = "done" /\ TotalRows(store) > 0
    /\ Printed("System metrics")
    /\ Has(calls, "fetch_samples") /\ Has(calls, "fetch_metric_samples")

\* C8: when build_timeframe fails, the report returns its error having
\* called nothing else; when a count or a fetch fails, the report returns the
\* error without a table or a graph; and the process then ends with the error
\* on stderr, nothing on stdout and status 1.
TimeframeFails(c) ==
    ~build_timeframe(AsI64(c.hours), AsI64(c.days), AsI64(c.months), c.all_time).ok

C8_ErrorsPropagate ==
    IsReport
        => /\ (TimeframeFails(cmd) /\ pc /= "r_timeframe")
                => /\ result = Some(Err("TimeframeError"))
                   /\ calls = <<"build_timeframe">>
           /\ result = Some(Err("StorageError"))
                => /\ calls[Len(calls)] \in StoreQueries
                   /\ NoTableNoGraph
           /\ (IsSome(result) /\ ~Unwrap(result).ok)
                => /\ stdout = <<>>
                   /\ pc \in {"returned", "done"}
                   /\ pc = "done"
                        => /\ exit = Some([code |-> 1, by |-> "main"])
                           /\ stderr = <<<<"Error: ", Unwrap(result).err>>>>

\* A fetch failed after both counts had succeeded.
C8_Witness ==
    /\ IsReport /\ pc = "done"
    /\ result = Some(Err("StorageError"))
    /\ Has(calls, "fetch_metric_samples")

\* C9, as claimed: a report calls the chart renderer at most once, and only
\* when --graph-path or --graph was given and the aggregated battery samples
\* of the window are not empty; the path is --graph-path when given, else the
\* default path; with an output requested and no battery sample in the window
\* the renderer is skipped and the summary is printed; when rendering fails
\* the error is returned and no summary is printed.
Requested(c) == IsSome(c.graph_path) \/ c.graph

RenderOnlyWhenAsked ==
    /\ Len(rendered) <= 1
    /\ Len(rendered) = Len(SelectSeq(calls, LAMBDA c : c = "render_plot"))
    /\ rendered /= <<>>
         => /\ Requested(cmd)
            /\ IsSome(raw_samples)
            /\ aggregate_samples_by_timestamp(Unwrap(raw_samples)) /= <<>>
            /\ rendered[1] = IF IsSome(cmd.graph_path) THEN Unwrap(cmd.graph_path)
                             ELSE default_graph_path(Unwrap(timeframe).label)
    /\ (pc \in {"r_summary", "returned", "done"} /\ Requested(cmd)
          /\ IsSome(metric_samples) /\ WindowBattery /= <<>>)
         => rendered /= <<>>

RenderFailureStops ==
    result = Some(Err("RenderError"))
        => /\ rendered /= <<>>
           /\ ~Has(calls, "summarize")
           /\ \A t \in Tables : ~Printed(t)

SkippedAndSummarized ==
    /\ rendered = <<>>
    /\ ~Has(calls, "render_plot")
    /\ result = Some(Ok("unit"))
    /\ Printed("System metrics")

C9_SkipStillSummarizes ==
    IsReport
        => /\ RenderOnlyWhenAsked
           /\ RenderFailureStops
           /\ (pc = "done" /\ Requested(cmd) /\ IsSome(metric_samples)
                 /\ WindowBattery = <<>>)
                => SkippedAndSummarized

\* C9, amended: as claimed, except that the summary after a skipped rendering
\* is printed when the window holds no battery sample but does hold a metric
\* sample; a window with no row of either kind ends the run before the graph
\* and the summary (the "No records for" exit).
C9_RenderAtMostOnce ==
    IsReport
        => /\ RenderOnlyWhenAsked
           /\ RenderFailureStops
           /\ (pc = "done" /\ Requested(cmd) /\ IsSome(metric_samples)
                 /\ WindowBattery = <<>> /\ WindowMetric /= <<>>)
                => SkippedAndSummarized /\ Printed("Skipping graph output")
           /\ (pc = "done" /\ IsSome(metric_samples)
                 /\ WindowBattery = <<>> /\ WindowMetric = <<>>)
                => rendered = <<>> /\ ~Printed("System metrics")

\* An output was requested, the window holds a metric sample and no battery
\* sample: the rendering was skipped and the summary printed.
C9_Witness ==
    /\ IsReport /\ pc = "done"
    /\ Requested(cmd)
    /\ IsSome(metric_samples) /\ WindowBattery = <<>> /\ WindowMetric /= <<>>
    /\ Printed("Skipping graph output") /\ Printed("System metrics")

\* C10: latest_metrics returns one sample for each (kind, source) pair of its
\* input and none for another pair; the sample of a pair is the first input
\* sample of that pair with the pair's greatest ts; the output is in strictly
\* ascending order of kind name, then source.
KeyLess(a, b) ==
    \/ StrCmp(as_str(a.kind), as_str(b.kind)) = "Less"
    \/ a.kind = b.kind /\ StrCmp(a.source, b.source) = "Less"

C10_LatestPerKeySorted ==
    lm.pc = "done"
        => LET input == lm.input
               out == lm.out
           IN  /\ {Key(out[i]) : i \in DOMAIN out} = {Key(input[j]) : j \in DOMAIN input}
               /\ \A i, j \in DOMAIN out : i /= j => Key(out[i]) /= Key(out[j])
               /\ \A i \in DOMAIN out :
                     \E j \in DOMAIN input :
                        /\ out[i] = input[j]
                        /\ \A k \in DOMAIN input :
                              Key(input[k]) = Key(input[j])
                                 => /\ input[k].ts <= input[j].ts
                                    /\ input[k].ts = input[j].ts => j <= k
               /\ \A i, j \in DOMAIN out : i < j => KeyLess(out[i], out[j])

\* Two samples of one pair tie on the greatest ts, and the pairs arrive in
\* descending order.
C10_Witness ==
    /\ lm.pc = "done"
    /\ Len(lm.out) = 2
    /\ \E i, j, k \in DOMAIN lm.input :
          /\ i < j /\ j < k
          /\ Key(lm.input[i]) /= Key(lm.input[j])
          /\ KeyLess(lm.input[j], lm.input[i])
          /\ Key(lm.input[k]) = Key(lm.input[j])
          /\ lm.input[k].ts = lm.input[j].ts

=============================================================================
